---- MODULE Spec2Model ----
(***************************************************************************)
(* Model of the Gaming History Dashboard (src/app.py): the data pipeline   *)
(* (normalize_log_df, merge_data, the aggregations of main_charts,         *)
(* genre_filter), the cached spreadsheet read and the append, and the      *)
(* script runs of app().                                                   *)
(*                                                                         *)
(* A DataFrame is a record [cols, rows]: cols is the set of column names,  *)
(* rows the sequence of rows, each row a function from cols to cell        *)
(* values.  Cell values are integers: game titles and UIDs are numbered by *)
(* their rank in string order, durations are in hundredths of an hour      *)
(* (the code rounds to 2 decimals), timestamps in minutes since            *)
(* 1970-01-01.  NaN stands for pandas' missing value (NaN / NaT).          *)
(***************************************************************************)
EXTENDS Integers, Sequences, FiniteSets, TLC

VARIABLES
    pc,                 \* position of the script run being modelled
    sheet,              \* rows of the log worksheet in the remote spreadsheet
    log_df,             \* the log DataFrame (app.py:228)
    reg_df,             \* the register DataFrame (app.py:229)
    merged,             \* the merged DataFrame (app.py:230)
    metrics,            \* the four numbers of show_summary_metrics
    badges,             \* the badge titles of playtime_achievements
    prev_eval,          \* total hours and badges of the evaluation before
    top_games,          \* the top-games rollup (app.py:168)
    month_agg,          \* the monthly rollup (app.py:174)
    selected_tags,      \* the tags chosen in the sidebar multiselect (app.py:135)
    filtered_register,  \* what genre_filter returned (app.py:231)
    cache,              \* the entries of st.cache_data for load_from_gsheet, by tab
    clock,              \* seconds since the session began
    served,             \* how the last read of the log tab was answered
    form_rendered,      \* the session form is on the page (app.py:237 ran)
    submitted_rows,     \* the rows the user sent with "Add Session"
    appended_rows       \* the rows passed to append_to_gsheet

dataVars == <<log_df, reg_df, merged>>
chartVars == <<metrics, badges, prev_eval, top_games, month_agg>>
filterVars == <<selected_tags, filtered_register>>
storeVars == <<cache, clock, served>>
formVars == <<form_rendered, submitted_rows, appended_rows>>
vars == <<pc, sheet, dataVars, chartVars, filterVars, storeVars, formVars>>

\* pandas' missing value: what errors="coerce" and an unmatched left join yield
NaN == -999999

NoTable == [cols |-> {}, rows |-> <<>>]

NoMetrics == [total_hours |-> 0, total_sessions |-> 0, unique_games |-> 0,
              avg_session |-> [num |-> 0, den |-> 1]]

NoEval == [valid |-> FALSE, total_hours |-> 0, badges |-> <<>>]

ChartsIdle ==
    /\ metrics = NoMetrics
    /\ badges = <<>>
    /\ prev_eval = NoEval
    /\ top_games = <<>>
    /\ month_agg = <<>>

FilterIdle ==
    /\ selected_tags = {}
    /\ filtered_register = NoTable

NoEntry == [valid |-> FALSE, data |-> <<>>, at |-> 0]

StoreIdle ==
    /\ cache = [tab \in {"log", "register"} |-> NoEntry]
    /\ clock = 0
    /\ served = "none"

FormIdle ==
    /\ form_rendered = FALSE
    /\ submitted_rows = <<>>
    /\ appended_rows = <<>>

\* ---------------------------------------------------------------- helpers

Max(a, b) == IF a >= b THEN a ELSE b

Restrict(f, S) == [c \in S |-> f[c]]

\* all sequences over S of length at most n
SeqsUpTo(S, n) == UNION {[1..k -> S] : k \in 0..n}

\* all DataFrames with columns cs, cells from vals, at most n rows
Tables(cs, vals, n) == {[cols |-> cs, rows |-> rs] : rs \in SeqsUpTo([cs -> vals], n)}

RECURSIVE Concat(_)
Concat(ss) == IF ss = <<>> THEN <<>> ELSE Head(ss) \o Concat(Tail(ss))

\* ---------------------------------------------------------------- bounds

\* game titles and UIDs, by rank
KeyValues == {1, 2}

\* rows of the log and of the register given to merge_data
MaxLogRows == 2
MaxRegRows == 2

\* rows of the log worksheet
MaxSheetRows == 2

\* rows of the merged table given to the summary metrics
MaxMetricRows == 3

\* distinct games of the merged table given to the top-games rollup
MaxGames == 17

\* rows of the register given to genre_filter
MaxFilterRows == 2

\* seconds a session lasts
MaxClock == 600

\* submissions of the session form
MaxSubmits == 2

\* ---------------------------------------------------------------- normalize_log_df

\* A date-time string of the worksheet is a tuple: <<y, mo, d, mi>> is the ISO
\* text of year y, month mo, day d and minute mi of the day; any other tuple
\* (the empty string <<>>, free text <<0>>) is not a date.

IsLeap(y) == (y % 4 = 0 /\ y % 100 # 0) \/ y % 400 = 0

DaysInMonth(y, mo) ==
    IF mo = 2 THEN (IF IsLeap(y) THEN 29 ELSE 28)
    ELSE IF mo \in {4, 6, 9, 11} THEN 30 ELSE 31

\* days from 1970-01-01 to the civil date y-mo-d (proleptic Gregorian)
DaysFromCivil(y, mo, d) ==
    LET yy  == IF mo <= 2 THEN y - 1 ELSE y
        era == yy \div 400
        yoe == yy - era * 400
        mp  == IF mo > 2 THEN mo - 3 ELSE mo + 9
        doy == (153 * mp + 2) \div 5 + d - 1
        doe == yoe * 365 + yoe \div 4 - yoe \div 100 + doy
    IN  era * 146097 + doe - 719468

\* <<year, month>> of the day number z
YearMonthOfDays(z) ==
    LET zz  == z + 719468
        era == zz \div 146097
        doe == zz - era * 146097
        yoe == (doe - doe \div 1460 + doe \div 36524 - doe \div 146096) \div 365
        doy == doe - (365 * yoe + yoe \div 4 - yoe \div 100)
        mp  == (5 * doy + 2) \div 153
        mo  == IF mp < 10 THEN mp + 3 ELSE mp - 9
        y   == yoe + era * 400 + (IF mo <= 2 THEN 1 ELSE 0)
    IN  <<y, mo>>

\* pd.to_datetime(cell, errors="coerce"): minutes since 1970-01-01, NaN (NaT)
\* for whatever does not parse
to_datetime(cell) ==
    IF /\ Len(cell) = 4
       /\ cell[2] \in 1..12
       /\ cell[3] \in 1..DaysInMonth(cell[1], cell[2])
       /\ cell[4] \in 0..1439
    THEN DaysFromCivil(cell[1], cell[2], cell[3]) * 1440 + cell[4]
    ELSE NaN

\* n / d rounded to the nearest integer (d > 0)
RoundDiv(n, d) == (2 * n + d) \div (2 * d)

\* a slip that treats a missing timestamp as time zero instead of propagating it
DurationHours_NaTAsZero(start, end) ==
    RoundDiv(((IF end = NaN THEN 0 ELSE end) - (IF start = NaN THEN 0 ELSE start)) * 100, 60)

\* ((end - start).dt.total_seconds() / 3600).round(2), in hundredths of an hour;
\* a difference with a NaT operand is NaT and stays missing
DurationHours(start, end) ==
    IF start = NaN \/ end = NaN THEN NaN ELSE RoundDiv((end - start) * 100, 60)

\* .dt.to_period("M"): the months since year 0, NaN for NaT
ToPeriodM(t) ==
    IF t = NaN THEN NaN
    ELSE LET ym == YearMonthOfDays(t \div 1440) IN ym[1] * 12 + (ym[2] - 1)

\* .dt.day_name(), as the day's index in the week (0 Monday .. 6 Sunday)
DayName(t) == IF t = NaN THEN NaN ELSE ((t \div 1440) + 3) % 7

normalize_log_row(row) ==
    LET start == to_datetime(row["Full Start"])
        end   == to_datetime(row["Full End"])
    IN  [c \in (DOMAIN row) \cup {"duration_hours", "month", "weekday"} |->
            CASE c = "Full Start"     -> start
              [] c = "Full End"       -> end
              [] c = "duration_hours" -> DurationHours(start, end)
              [] c = "month"          -> ToPeriodM(start)
              [] c = "weekday"        -> DayName(start)
              [] OTHER                -> row[c]]

normalize_log_df(df) ==
    [cols |-> df.cols \cup {"duration_hours", "month", "weekday"},
     rows |-> [i \in 1..Len(df.rows) |-> normalize_log_row(df.rows[i])]]

\* ---------------------------------------------------------------- merge_data

\* pd.merge(l, r, left_on=lk, right_on=rk, how="left"): for every left row in
\* order, one output row per right row with an equal key, in right order; a left
\* row without a match appears once with the right-only columns missing.
PdMergeLeft(l, r, lk, rk) ==
    IF lk \notin l.cols \/ rk \notin r.cols
    THEN [err |-> TRUE, cols |-> {}, rows |-> <<>>]
    ELSE LET rightOnly == r.cols \ l.cols
             Block(i) ==
                 LET lrow == l.rows[i]
                     hits == SelectSeq(r.rows, LAMBDA rr : rr[rk] = lrow[lk])
                 IN  IF hits = <<>>
                     THEN << lrow @@ [c \in rightOnly |-> NaN] >>
                     ELSE [j \in 1..Len(hits) |-> lrow @@ Restrict(hits[j], rightOnly)]
         IN  [err  |-> FALSE,
              cols |-> l.cols \cup r.cols,
              rows |-> Concat([i \in 1..Len(l.rows) |-> Block(i)])]

\* a slip that picks the key per table instead of for the pair
merge_data_AnyUID(log, reg) ==
    IF "UID" \in log.cols \/ "UID" \in reg.cols
    THEN PdMergeLeft(log, reg, "UID", "UID")
    ELSE PdMergeLeft(log, reg, "GAME", "Game")

\* a slip that joins inner instead of left: unmatched sessions are lost
merge_data_Inner(log, reg) ==
    LET lk == IF "UID" \in log.cols /\ "UID" \in reg.cols THEN "UID" ELSE "GAME"
        rk == IF "UID" \in log.cols /\ "UID" \in reg.cols THEN "UID" ELSE "Game"
        kept == [cols |-> log.cols,
                 rows |-> SelectSeq(log.rows,
                            LAMBDA lr : \E j \in 1..Len(reg.rows) : reg.rows[j][rk] = lr[lk])]
    IN  IF lk \notin log.cols \/ rk \notin reg.cols
        THEN [err |-> TRUE, cols |-> {}, rows |-> <<>>]
        ELSE PdMergeLeft(kept, reg, lk, rk)

merge_data(log, reg) ==
    IF "UID" \in log.cols /\ "UID" \in reg.cols
    THEN PdMergeLeft(log, reg, "UID", "UID")
    ELSE PdMergeLeft(log, reg, "GAME", "Game")

\* ---------------------------------------------------------------- genre_filter

\* str.lower() of the column names the registers of this model use
Lower(c) ==
    CASE c = "Game"      -> "game"
      [] c = "Genre"     -> "genre"
      [] c = "GenreTag2" -> "genretag2"
      [] OTHER           -> c

\* s.startswith("genretag"), for the lower-case names above
StartsWithGenretag(s) == s \in {"genretag1", "genretag2"}

\* a slip that compares the names as written, without lower()
GenreCols_CaseSensitive(df) == {c \in df.cols : StartsWithGenretag(c)}

\* [c for c in df_register.columns if c.lower().startswith("genretag")]
GenreCols(df) == {c \in df.cols : StartsWithGenretag(Lower(c))}

\* df[genre_cols].melt(value_name="tag")["tag"].dropna().unique(): the option
\* list of the multiselect, as a set
AllTags(df) ==
    {df.rows[i][c] : i \in 1..Len(df.rows), c \in GenreCols(df)} \ {NaN}

\* df[genre_cols].isin(selected).any(axis=1)
GenreMask(df, selected) ==
    [i \in 1..Len(df.rows) |-> \E c \in GenreCols(df) : df.rows[i][c] \in selected]

\* df[mask]: the rows whose mask is true, in order
RECURSIVE MaskedRows(_, _, _)
MaskedRows(rows, mask, i) ==
    IF i > Len(rows) THEN <<>>
    ELSE (IF mask[i] THEN <<rows[i]>> ELSE <<>>) \o MaskedRows(rows, mask, i + 1)

\* genre_filter with the multiselect's answer passed in
genre_filter(df_register, selected) ==
    IF GenreCols(df_register) = {} THEN df_register
    ELSE IF selected # {}
         THEN [cols |-> df_register.cols,
               rows |-> MaskedRows(df_register.rows, GenreMask(df_register, selected), 1)]
         ELSE df_register

\* ---------------------------------------------------------------- aggregations

RECURSIVE SumSeq(_)
SumSeq(xs) == IF xs = <<>> THEN 0 ELSE Head(xs) + SumSeq(Tail(xs))

\* the values of column c, in row order
Column(df, c) == [i \in 1..Len(df.rows) |-> df.rows[i][c]]

\* Series.dropna()
DropNa(xs) == SelectSeq(xs, LAMBDA x : x # NaN)

\* Series.sum(): missing values are skipped, the empty sum is 0
SeriesSum(xs) == SumSeq(DropNa(xs))

\* Series.mean(): the mean of the values present, as the fraction num / den;
\* with no value present it is 0 / 0, pandas' NaN
SeriesMean(xs) == [num |-> SumSeq(DropNa(xs)), den |-> Len(DropNa(xs))]

\* Series.nunique(): distinct values present
NUnique(xs) == Cardinality({xs[i] : i \in 1..Len(xs)} \ {NaN})

Zero == [num |-> 0, den |-> 1]

\* a slip that drops the guard on the session count
show_summary_metrics_NoGuard(df) ==
    [total_hours    |-> SeriesSum(Column(df, "duration_hours")),
     total_sessions |-> Len(df.rows),
     unique_games   |-> IF "GAME" \in df.cols THEN NUnique(Column(df, "GAME")) ELSE 0,
     avg_session    |-> SeriesMean(Column(df, "duration_hours"))]

show_summary_metrics(df) ==
    LET total_sessions == Len(df.rows)
    IN  [total_hours    |-> SeriesSum(Column(df, "duration_hours")),
         total_sessions |-> total_sessions,
         unique_games   |-> IF "GAME" \in df.cols THEN NUnique(Column(df, "GAME")) ELSE 0,
         avg_session    |-> IF total_sessions > 0
                            THEN SeriesMean(Column(df, "duration_hours"))
                            ELSE Zero]

\* the milestone table of playtime_achievements, thresholds in hundredths of an hour
milestones ==
    << [hrs |-> 100 * 100,  title |-> "Casual Grinder"],
       [hrs |-> 250 * 100,  title |-> "Hardcore Enthusiast"],
       [hrs |-> 500 * 100,  title |-> "Legendary Gamer"],
       [hrs |-> 1000 * 100, title |-> "God-Tier Completionist"] >>

Titles(ms) == [i \in 1..Len(ms) |-> ms[i].title]

\* a slip that awards a badge only above its threshold
playtime_achievements_Strict(df) ==
    LET total_hours == SeriesSum(Column(df, "duration_hours"))
    IN  Titles(SelectSeq(milestones, LAMBDA m : total_hours > m.hrs))

playtime_achievements(df) ==
    LET total_hours == SeriesSum(Column(df, "duration_hours"))
    IN  Titles(SelectSeq(milestones, LAMBDA m : total_hours >= m.hrs))

\* the elements of the finite set S of integers in ascending order
RECURSIVE SortedInts(_)
SortedInts(S) ==
    IF S = {} THEN <<>>
    ELSE LET x == CHOOSE v \in S : \A w \in S : v <= w
         IN  <<x>> \o SortedInts(S \ {x})

\* df.groupby("GAME")["duration_hours"].sum(): one entry per GAME present, in
\* ascending key order (groupby sorts its keys); a group's sum skips missing values
GroupByGameSum(df) ==
    LET keys == SortedInts({df.rows[i]["GAME"] : i \in 1..Len(df.rows)} \ {NaN})
        Hours(g) == SeriesSum(Column([cols |-> df.cols,
                                      rows |-> SelectSeq(df.rows, LAMBDA r : r["GAME"] = g)],
                                     "duration_hours"))
    IN  [k \in 1..Len(keys) |-> [GAME |-> keys[k], duration_hours |-> Hours(keys[k])]]

\* the sequences over the entries of the set S in which the value never grows
RECURSIVE DescendingOrders(_)
DescendingOrders(S) ==
    IF S = {} THEN {<<>>}
    ELSE LET top == {e \in S : \A f \in S : e.duration_hours >= f.duration_hours}
         IN  UNION {{<<e>> \o rest : rest \in DescendingOrders(S \ {e})} : e \in top}

\* a slip that sorts ascending
SortValuesDescending_Ascending(series) ==
    LET Reverse(q) == [i \in 1..Len(q) |-> q[Len(q) + 1 - i]]
    IN  {Reverse(q) : q \in DescendingOrders({series[i] : i \in 1..Len(series)})}

\* Series.sort_values(ascending=False): the default sort (quicksort) is not
\* stable, so entries with equal values may come out in any order
SortValuesDescending(series) == DescendingOrders({series[i] : i \in 1..Len(series)})

\* Series.head(n)
SeqHead(q, n) == SubSeq(q, 1, IF Len(q) < n THEN Len(q) ELSE n)

TopN == 15

\* the outcomes of groupby("GAME")[...].sum().sort_values(ascending=False).head(15)
TopGamesOutcomes(df) ==
    {SeqHead(q, TopN) : q \in SortValuesDescending(GroupByGameSum(df))}

\* a string is the sequence of its characters' code points
Digit(n) == 48 + n

\* str(period): "YYYY-MM", and "NaT" for a missing period
PeriodStr(p) ==
    IF p = NaN THEN <<78, 97, 84>>
    ELSE LET y == p \div 12
             mo == (p % 12) + 1
         IN  << Digit((y \div 1000) % 10), Digit((y \div 100) % 10),
                Digit((y \div 10) % 10), Digit(y % 10), 45,
                Digit(mo \div 10), Digit(mo % 10) >>

\* string order: a < b
RECURSIVE StrLess(_, _)
StrLess(a, b) ==
    IF b = <<>> THEN FALSE
    ELSE IF a = <<>> THEN TRUE
    ELSE IF Head(a) # Head(b) THEN Head(a) < Head(b)
    ELSE StrLess(Tail(a), Tail(b))

RECURSIVE SortedStrs(_)
SortedStrs(S) ==
    IF S = {} THEN <<>>
    ELSE LET x == CHOOSE v \in S : \A w \in S : v = w \/ StrLess(v, w)
         IN  <<x>> \o SortedStrs(S \ {x})

\* df.groupby(df["month"].astype(str))["duration_hours"].sum().reset_index():
\* one row per distinct month string, in ascending string order
MonthAgg(df) ==
    LET keys == SortedStrs({PeriodStr(df.rows[i]["month"]) : i \in 1..Len(df.rows)})
        Hours(k) == SeriesSum(Column([cols |-> df.cols,
                                      rows |-> SelectSeq(df.rows,
                                                 LAMBDA r : PeriodStr(r["month"]) = k)],
                                     "duration_hours"))
    IN  [n \in 1..Len(keys) |-> [month |-> keys[n], duration_hours |-> Hours(keys[n])]]

\* ---------------------------------------------------------------- the load run

\* pd.DataFrame(sheet.get_all_records()): the columns are the keys of the
\* records, so a worksheet without data rows gives a frame without columns
DataFrame(records) ==
    IF records = <<>> THEN NoTable
    ELSE [cols |-> DOMAIN records[1], rows |-> records]

\* app.py:228, normalize_log_df on the fetched log; df["Full Start"] raises
\* KeyError on a frame without that column, which app.py:239 catches
NormalizeLogDf ==
    /\ pc = "fetched"
    /\ IF {"Full Start", "Full End"} \subseteq log_df.cols
       THEN pc' = "loaded" /\ log_df' = normalize_log_df(log_df)
       ELSE pc' = "error" /\ log_df' = log_df
    /\ UNCHANGED <<sheet, reg_df, merged, chartVars, filterVars, storeVars, formVars>>

\* app.py:230 inside the try of app.py:227-240
MergeData ==
    /\ pc = "loaded"
    /\ LET res == merge_data(log_df, reg_df)
       IN  IF res.err
           THEN pc' = "error" /\ merged' = merged
           ELSE pc' = "merged" /\ merged' = [cols |-> res.cols, rows |-> res.rows]
    /\ UNCHANGED <<sheet, log_df, reg_df, chartVars, filterVars, storeVars, formVars>>

\* app.py:231, genre_filter(reg_df): the multiselect is rendered only when the
\* register has genre-tag columns, and offers the tags found in them
GenreFilter ==
    /\ pc = "merged"
    /\ \E selected \in SUBSET AllTags(reg_df) :
          /\ selected_tags' = selected
          /\ filtered_register' = genre_filter(reg_df, selected)
    /\ pc' = "filtered"
    /\ UNCHANGED <<sheet, dataVars, chartVars, storeVars, formVars>>

\* app.py:233, main_charts(merged): the metrics and the badges are rendered
\* first; groupby("GAME") raises KeyError on a frame without GAME
MainCharts ==
    /\ pc = "filtered"
    /\ metrics' = show_summary_metrics(merged)
    /\ badges' = playtime_achievements(merged)
    /\ IF "GAME" \in merged.cols
       THEN /\ top_games' \in TopGamesOutcomes(merged)
            /\ month_agg' = MonthAgg(merged)
            /\ pc' = "charted"
       ELSE /\ pc' = "error"
            /\ UNCHANGED <<top_games, month_agg>>
    /\ UNCHANGED <<sheet, dataVars, prev_eval, filterVars, storeVars, formVars>>

\* ---------------------------------------------------------------- the spreadsheet

\* @st.cache_data(ttl=300)
TTL == 300

\* a slip that never lets a cached entry expire
load_from_gsheet_NoExpiry(entry, now, remote) ==
    IF entry.valid
    THEN [data |-> entry.data, entry |-> entry, served |-> "cache"]
    ELSE [data |-> remote,
          entry |-> [valid |-> TRUE, data |-> remote, at |-> now],
          served |-> "fetch"]

\* load_from_gsheet(sheet_name, tab) at time now, entry being the cache entry
\* for these arguments and remote the rows of the worksheet: an entry younger
\* than the ttl answers the call, otherwise the worksheet is read and cached
load_from_gsheet(entry, now, remote) ==
    IF entry.valid /\ now - entry.at < TTL
    THEN [data |-> entry.data, entry |-> entry, served |-> "cache"]
    ELSE [data |-> remote,
          entry |-> [valid |-> TRUE, data |-> remote, at |-> now],
          served |-> "fetch"]

\* the register worksheet: one game
RegisterSheet == << [c \in {"Game"} |-> 1] >>

\* the record the worksheet gains from the row of new_session_form: GAME, and
\* Full Start / Full End as datetime.combine(date, time).isoformat()
FormRow(game, date, start_time, end_time) ==
    ("GAME" :> game)
    @@ ("Full Start" :> <<date[1], date[2], date[3], start_time>>)
    @@ ("Full End" :> <<date[1], date[2], date[3], end_time>>)

\* the else branch of app(): only the hint is shown, no table is built
InfoBranch ==
    /\ pc' = "info"
    /\ form_rendered' = FALSE
    /\ log_df' = NoTable /\ reg_df' = NoTable /\ merged' = NoTable
    /\ UNCHANGED <<sheet, appended_rows, chartVars, filterVars, storeVars>>

\* the branch of app() under the "Load data" button (app.py:227-240);
\* submitted is what st.form_submit_button returns in this run, row the row
\* the form builds
LoadBranch(submitted, row) ==
    LET lg  == load_from_gsheet(cache["log"], clock, sheet)
        df0 == DataFrame(lg.data)
        ldf == normalize_log_df(df0)
        rg  == load_from_gsheet(cache["register"], clock, RegisterSheet)
        rdf == DataFrame(rg.data)
        res == merge_data(ldf, rdf)
        mrg == [cols |-> res.cols, rows |-> res.rows]
    IN  /\ served' = lg.served
        /\ clock' = clock
        /\ IF ~({"Full Start", "Full End"} \subseteq df0.cols)
           THEN \* normalize_log_df raises before the register is read
                /\ cache' = [cache EXCEPT !["log"] = lg.entry]
                /\ pc' = "error"
                /\ form_rendered' = FALSE
                /\ log_df' = NoTable /\ reg_df' = NoTable /\ merged' = NoTable
                /\ UNCHANGED <<sheet, appended_rows, chartVars, filterVars>>
           ELSE /\ cache' = [cache EXCEPT !["log"] = lg.entry, !["register"] = rg.entry]
                /\ log_df' = ldf
                /\ reg_df' = rdf
                /\ IF res.err \/ "GAME" \notin mrg.cols \/ "Game" \notin rdf.cols
                   THEN /\ pc' = "error"
                        /\ form_rendered' = FALSE
                        /\ merged' = NoTable
                        /\ UNCHANGED <<sheet, appended_rows, chartVars, filterVars>>
                   ELSE /\ merged' = mrg
                        /\ \E selected \in SUBSET AllTags(rdf) :
                              /\ selected_tags' = selected
                              /\ filtered_register' = genre_filter(rdf, selected)
                        /\ metrics' = show_summary_metrics(mrg)
                        /\ badges' = playtime_achievements(mrg)
                        /\ top_games' \in TopGamesOutcomes(mrg)
                        /\ month_agg' = MonthAgg(mrg)
                        /\ prev_eval' = prev_eval
                        /\ IF submitted
                           THEN \* app.py:212-214: append, then rerun without a click
                                /\ sheet' = Append(sheet, row)
                                /\ appended_rows' = Append(appended_rows, row)
                                /\ form_rendered' = FALSE
                                /\ pc' = "info"
                           ELSE /\ UNCHANGED <<sheet, appended_rows>>
                                /\ form_rendered' = TRUE
                                /\ pc' = "charted"

\* one run of the script: st.sidebar.button("Load data") returns load_clicked,
\* st.form_submit_button("Add Session") returns form_submitted where it is called
app(load_clicked, form_submitted, row) ==
    IF load_clicked THEN LoadBranch(form_submitted, row) ELSE InfoBranch

\* the rows the session form can send in this model: game 1 or 2 on
\* 2024-01-01, from 20:00 to 22:30 or to 00:40
FormRows ==
    {FormRow(g, <<2024, 1, 1>>, 1200, e) : g \in KeyValues, e \in {1350, 40}}

\* the user presses "Load data": the script runs with the button pressed
ClickLoad ==
    /\ app(TRUE, FALSE, CHOOSE r \in FormRows : TRUE)
    /\ UNCHANGED submitted_rows

\* the user fills the form, which is on the page, and presses "Add Session":
\* the script runs again; the "Load data" button was not pressed for this run
SubmitForm ==
    /\ form_rendered
    /\ \E row \in FormRows :
          /\ submitted_rows' = Append(submitted_rows, row)
          /\ app(FALSE, TRUE, row)

\* the user edits a sidebar text input: the script runs with nothing pressed
EditSidebar ==
    /\ app(FALSE, FALSE, CHOOSE r \in FormRows : TRUE)
    /\ UNCHANGED submitted_rows

\* time passes
Tick ==
    /\ \E d \in {100, 300} :
          /\ clock + d <= MaxClock
          /\ clock' = clock + d
    /\ UNCHANGED <<pc, sheet, dataVars, chartVars, filterVars, cache, served, formVars>>

\* append_to_gsheet(sheet_name, log_tab, row) (app.py:66-70): the worksheet
\* gains the row; neither the cache nor any table in memory is touched
AppendToGsheet ==
    /\ Len(sheet) < MaxSheetRows
    /\ \E row \in FormRows :
          /\ sheet' = Append(sheet, row)
          /\ appended_rows' = Append(appended_rows, row)
    /\ pc' = "appended"
    /\ UNCHANGED <<dataVars, chartVars, filterVars, storeVars, form_rendered, submitted_rows>>

\* ---------------------------------------------------------------- SpecMerge

MergeLogTables ==
    UNION {Tables(cs, KeyValues, MaxLogRows) : cs \in {{"GAME"}, {"GAME", "UID"}, {"UID"}}}

MergeRegTables ==
    UNION {Tables(cs, KeyValues, MaxRegRows) : cs \in {{"Game"}, {"Game", "UID"}, {"UID"}}}

InitMerge ==
    /\ pc = "loaded"
    /\ log_df \in MergeLogTables
    /\ reg_df \in MergeRegTables
    /\ merged = NoTable
    /\ sheet = <<>>
    /\ ChartsIdle
    /\ FilterIdle
    /\ StoreIdle
    /\ FormIdle

NextMerge == MergeData

SpecMerge == InitMerge /\ [][NextMerge]_vars

\* the key pair the claims speak of: chosen once from the columns of both tables
BothHaveUID == "UID" \in log_df.cols /\ "UID" \in reg_df.cols
LeftKey == IF BothHaveUID THEN "UID" ELSE "GAME"
RightKey == IF BothHaveUID THEN "UID" ELSE "Game"
RightOnly == reg_df.cols \ log_df.cols

\* the register rows whose key equals the key of log row i
Matches(i) == {j \in 1..Len(reg_df.rows) : reg_df.rows[j][RightKey] = log_df.rows[i][LeftKey]}

Copies(i) == Max(1, Cardinality(Matches(i)))

RECURSIVE CopiesBefore(_)
CopiesBefore(i) == IF i <= 1 THEN 0 ELSE CopiesBefore(i - 1) + Copies(i - 1)

RegKeysUnique ==
    \A j, k \in 1..Len(reg_df.rows) :
        reg_df.rows[j][RightKey] = reg_df.rows[k][RightKey] => j = k

\* C1: merge_data chooses the join key once per pair of tables: UID when both
\* tables have a UID column (whatever GAME and Game hold), otherwise log.GAME
\* against register.Game, also when only one table has UID.  Every merged row
\* is a log row extended by a register row equal to it on that key, or by
\* missing values when no register row has that key; and the merge raises only
\* when the fallback is chosen and one of its columns is absent.
ThmC1_JoinKeyChosenPerTablePair ==
    /\ pc = "error" =>
          /\ ~BothHaveUID
          /\ ("GAME" \notin log_df.cols \/ "Game" \notin reg_df.cols)
    /\ pc = "merged" =>
          /\ LeftKey \in log_df.cols /\ RightKey \in reg_df.cols
          /\ merged.cols = log_df.cols \cup reg_df.cols
          /\ \A n \in 1..Len(merged.rows) :
                LET m == merged.rows[n]
                    hit == {j \in 1..Len(reg_df.rows) : reg_df.rows[j][RightKey] = m[LeftKey]}
                IN  /\ \E i \in 1..Len(log_df.rows) : Restrict(m, log_df.cols) = log_df.rows[i]
                    /\ IF hit = {}
                       THEN \A c \in RightOnly : m[c] = NaN
                       ELSE \E j \in hit :
                               Restrict(m, RightOnly) = Restrict(reg_df.rows[j], RightOnly)

\* C1 witness: both tables have UID, GAME and Game; a session is joined to the
\* register row with its UID although that row's Game differs from its GAME.
WitC1_UidJoinDespiteGameMismatch ==
    /\ pc = "merged"
    /\ BothHaveUID
    /\ "GAME" \in log_df.cols /\ "Game" \in reg_df.cols
    /\ \E n \in 1..Len(merged.rows) :
          /\ merged.rows[n]["Game"] # NaN
          /\ merged.rows[n]["Game"] # merged.rows[n]["GAME"]
          /\ \E j \in 1..Len(reg_df.rows) : reg_df.rows[j]["Game"] = merged.rows[n]["GAME"]

\* C2: the merged table holds each log row max(1, m) times, m the number of
\* register rows with the log row's key, in log order: an unmatched session
\* once with missing catalog fields, a session with duplicate register keys
\* once per match; so the merged row count is >= the log row count and equals
\* it when the register keys are unique.
ThmC2_LeftJoinFanOut ==
    pc = "merged" =>
        /\ Len(merged.rows) = CopiesBefore(Len(log_df.rows) + 1)
        /\ \A i \in 1..Len(log_df.rows) :
              \A k \in 1..Copies(i) :
                 LET m == merged.rows[CopiesBefore(i) + k]
                 IN  /\ Restrict(m, log_df.cols) = log_df.rows[i]
                     /\ Matches(i) = {} => \A c \in RightOnly : m[c] = NaN
                     /\ Matches(i) # {} =>
                           \E j \in Matches(i) :
                              Restrict(m, RightOnly) = Restrict(reg_df.rows[j], RightOnly)
        /\ Len(merged.rows) >= Len(log_df.rows)
        /\ RegKeysUnique => Len(merged.rows) = Len(log_df.rows)

\* C2 witness: one session has no register match and another has two.
WitC2_UnmatchedAndDuplicated ==
    /\ pc = "merged"
    /\ \E i, k \in 1..Len(log_df.rows) :
          /\ Matches(i) = {}
          /\ Cardinality(Matches(k)) = 2
    /\ Len(merged.rows) = 3

\* ---------------------------------------------------------------- SpecNormalize

LogRecord(g, s, e) == ("GAME" :> g) @@ ("Full Start" :> s) @@ ("Full End" :> e)

\* "2023-12-31T23:30", "2024-01-01T20:00", the impossible "2024-02-30T10:00", ""
StartCells == {<<2023, 12, 31, 1410>>, <<2024, 1, 1, 1200>>, <<2024, 2, 30, 600>>, <<>>}

\* "2024-01-01T22:30", "2024-01-01T00:40", free text, ""
EndCells == {<<2024, 1, 1, 1350>>, <<2024, 1, 1, 40>>, <<0>>, <<>>}

SheetRecords == {LogRecord(g, s, e) : g \in KeyValues, s \in StartCells, e \in EndCells}

\* a register with one entry, for game 1
OneGameRegister == [cols |-> {"Game"}, rows |-> << [c \in {"Game"} |-> 1] >>]

\* the state after app.py:228 has fetched the log worksheet
InitNormalize ==
    /\ pc = "fetched"
    /\ sheet \in SeqsUpTo(SheetRecords, MaxSheetRows)
    /\ log_df = DataFrame(sheet)
    /\ reg_df = OneGameRegister
    /\ merged = NoTable
    /\ ChartsIdle
    /\ FilterIdle
    /\ StoreIdle
    /\ FormIdle

NextNormalize == NormalizeLogDf \/ MergeData \/ GenreFilter \/ MainCharts

SpecNormalize == InitNormalize /\ [][NextNormalize]_vars

\* the well-formed date-time cells of the worksheets above, each with its
\* distance in minutes from 2024-01-01T00:00
Stamps == {<<2023, 12, 31, 1410>>, <<2024, 1, 1, 1200>>, <<2024, 1, 1, 1350>>, <<2024, 1, 1, 40>>}

MinuteOf(cell) ==
    CASE cell = <<2023, 12, 31, 1410>> -> -30
      [] cell = <<2024, 1, 1, 1200>>   -> 1200
      [] cell = <<2024, 1, 1, 1350>>   -> 1350
      [] cell = <<2024, 1, 1, 40>>     -> 40

BothParse(i) == sheet[i]["Full Start"] \in Stamps /\ sheet[i]["Full End"] \in Stamps

RECURSIVE SumOver(_, _)
SumOver(S, f) ==
    IF S = {} THEN 0
    ELSE LET x == CHOOSE v \in S : TRUE IN f[x] + SumOver(S \ {x}, f)

Normalized == pc \in {"loaded", "merged", "filtered", "charted"}

\* C8: normalize_log_df never aborts on a malformed or missing timestamp and
\* the damage stays in the row: a row whose Full Start and Full End both parse
\* has duration_hours = (Full End - Full Start) in hours rounded to 2 decimals
\* (negative when the end precedes the start) whatever the other rows hold; a
\* row with an unparsable timestamp has an undefined duration_hours and is left
\* out of the total-hours sum.
ThmC8_BadTimestampStaysInItsRow ==
    /\ sheet # <<>> => pc # "error"
    /\ Normalized =>
          /\ Len(log_df.rows) = Len(sheet)
          /\ \A i \in 1..Len(sheet) :
                LET d == log_df.rows[i]["duration_hours"]
                    minutes == MinuteOf(sheet[i]["Full End"]) - MinuteOf(sheet[i]["Full Start"])
                IN  IF BothParse(i)
                    THEN /\ d # NaN
                         /\ 60 * d - 100 * minutes \in -30..30
                    ELSE d = NaN
    /\ pc = "charted" =>
          metrics.total_hours =
              SumOver({i \in 1..Len(sheet) : BothParse(i)},
                      [i \in 1..Len(sheet) |-> log_df.rows[i]["duration_hours"]])

\* C8 witness: the session of 2024-01-01 20:00-22:30 (2.5 hours, month 2024-01,
\* a Monday) next to a row whose Full Start does not parse; the total counts
\* the defined duration only.
WitC8_GoodRowNextToBadRow ==
    /\ pc = "charted"
    /\ \E i, j \in 1..Len(sheet) :
          /\ sheet[i]["Full Start"] = <<2024, 1, 1, 1200>>
          /\ sheet[i]["Full End"] = <<2024, 1, 1, 1350>>
          /\ log_df.rows[i]["duration_hours"] = 250
          /\ log_df.rows[i]["month"] = 2024 * 12
          /\ log_df.rows[i]["weekday"] = 0
          /\ sheet[j]["Full Start"] = <<2024, 2, 30, 600>>
          /\ sheet[j]["Full End"] = <<2024, 1, 1, 40>>
          /\ log_df.rows[j]["duration_hours"] = NaN
    /\ metrics.total_hours = 250

\* the year-month buckets that occur in the data
MonthBuckets == {merged.rows[i]["month"] : i \in 1..Len(merged.rows)} \ {NaN}

\* C6: the monthly rollup has exactly one row per year-month bucket that occurs
\* in the data, each with the sum of that month's duration_hours, in
\* chronological order, and no other row; rows whose Full Start did not parse
\* add no row for a non-month bucket.
ClaimC6_MonthlyRollupHasOnlyMonths ==
    pc = "charted" =>
        /\ Len(month_agg) = Cardinality(MonthBuckets)
        /\ \A n \in 1..Len(month_agg) :
              \E b \in MonthBuckets :
                 /\ month_agg[n].month = PeriodStr(b)
                 /\ month_agg[n].duration_hours =
                       SumOver({i \in 1..Len(merged.rows) :
                                    /\ merged.rows[i]["month"] = b
                                    /\ merged.rows[i]["duration_hours"] # NaN},
                               [i \in 1..Len(merged.rows) |-> merged.rows[i]["duration_hours"]])
                 /\ \A k \in 1..(n - 1) :
                       \E a \in MonthBuckets : month_agg[k].month = PeriodStr(a) /\ a < b

\* ---------------------------------------------------------------- SpecMetrics

\* undefined, -50 h, 100 h, 160 h, 500 h
MetricDurations == {NaN, -5000, 10000, 16000, 50000}

MetricRow(cs, g, d) ==
    [c \in cs |-> CASE c = "GAME" -> g
                    [] c = "duration_hours" -> d
                    [] c = "month" -> 2024 * 12]

MetricRows(cs) == {MetricRow(cs, g, d) : g \in KeyValues, d \in MetricDurations}

MetricColumns == {{"GAME", "duration_hours", "month"}, {"duration_hours", "month"}}

\* main_charts is about to run on a merged table
InitMetrics ==
    /\ pc = "filtered"
    /\ \E cs \in MetricColumns :
          merged \in {[cols |-> cs, rows |-> rs] : rs \in SeqsUpTo(MetricRows(cs), MaxMetricRows)}
    /\ sheet = <<>>
    /\ log_df = NoTable
    /\ reg_df = NoTable
    /\ ChartsIdle
    /\ FilterIdle
    /\ StoreIdle
    /\ FormIdle

\* a later run of the script finds one more session in the merged table; the
\* evaluation just rendered becomes the earlier one
LaterRun ==
    /\ pc \in {"charted", "error"}
    /\ Len(merged.rows) < MaxMetricRows
    /\ \E r \in MetricRows(merged.cols) :
          merged' = [merged EXCEPT !.rows = Append(@, r)]
    /\ prev_eval' = [valid |-> TRUE, total_hours |-> metrics.total_hours, badges |-> badges]
    /\ pc' = "filtered"
    /\ UNCHANGED <<sheet, log_df, reg_df, metrics, badges, top_games, month_agg, filterVars,
                   storeVars, formVars>>

NextMetrics == MainCharts \/ LaterRun

SpecMetrics == InitMetrics /\ [][NextMetrics]_vars

Evaluated == pc \in {"charted", "error"}

DefinedRows == {i \in 1..Len(merged.rows) : merged.rows[i]["duration_hours"] # NaN}

DurationOfRow == [i \in 1..Len(merged.rows) |-> merged.rows[i]["duration_hours"]]

Range(q) == {q[i] : i \in 1..Len(q)}

\* the badge table of the specification, hours in hundredths
BadgeTable ==
    << <<10000, "Casual Grinder">>, <<25000, "Hardcore Enthusiast">>,
       <<50000, "Legendary Gamer">>, <<100000, "God-Tier Completionist">> >>

\* C4: playtime_achievements yields exactly the badges whose threshold is <=
\* total hours (100 Casual Grinder, 250 Hardcore Enthusiast, 500 Legendary
\* Gamer, 1000 God-Tier Completionist), all of them, in ascending threshold
\* order; so when total hours has not shrunk since the evaluation before, the
\* badges of that evaluation are all still there; 260 hours give exactly
\* Casual Grinder and Hardcore Enthusiast.
ThmC4_BadgesByThreshold ==
    Evaluated =>
        LET earned == {k \in 1..4 : BadgeTable[k][1] <= metrics.total_hours}
        IN  /\ Len(badges) = Cardinality(earned)
            /\ \A k \in earned : k <= Len(badges) /\ badges[k] = BadgeTable[k][2]
            /\ (prev_eval.valid /\ prev_eval.total_hours <= metrics.total_hours) =>
                  Range(prev_eval.badges) \subseteq Range(badges)
            /\ metrics.total_hours = 26000 =>
                  badges = <<"Casual Grinder", "Hardcore Enthusiast">>

\* C4 witness: total hours grew from 100 to 260 between two evaluations, and a
\* badge was added to the one already held.
WitC4_GrewTo260Hours ==
    /\ pc = "charted"
    /\ prev_eval.valid
    /\ prev_eval.total_hours = 10000
    /\ prev_eval.badges = <<"Casual Grinder">>
    /\ metrics.total_hours = 26000
    /\ Len(badges) = 2

\* ---------------------------------------------------------------- SpecTop

\* hours of game g in the table: all different, or equal two by two
HoursPattern(pat, g) ==
    CASE pat = "distinct" -> g * 100
      [] pat = "pairs"    -> ((g + 1) \div 2) * 100

\* a merged table with games 1..n: one session per game, the games first seen
\* in ascending or in descending order of their titles, then (if again) a
\* second session of every odd game whose duration is undefined
TopTable(n, order, pat, again) ==
    LET cs == {"GAME", "duration_hours", "month"}
        First(k) == MetricRow(cs, IF order = "asc" THEN k ELSE n + 1 - k,
                              HoursPattern(pat, IF order = "asc" THEN k ELSE n + 1 - k))
        odd == SortedInts({g \in 1..n : g % 2 = 1})
        Second(k) == MetricRow(cs, odd[k], NaN)
    IN  [cols |-> cs,
         rows |-> [k \in 1..n |-> First(k)]
                  \o (IF again THEN [k \in 1..Len(odd) |-> Second(k)] ELSE <<>>)]

InitTop ==
    /\ pc = "filtered"
    /\ \E n \in 0..MaxGames, order \in {"asc", "desc"}, pat \in {"distinct", "pairs"},
          again \in BOOLEAN :
          merged = TopTable(n, order, pat, again)
    /\ sheet = <<>>
    /\ log_df = NoTable
    /\ reg_df = NoTable
    /\ ChartsIdle
    /\ FilterIdle
    /\ StoreIdle
    /\ FormIdle

NextTop == MainCharts

SpecTop == InitTop /\ [][NextTop]_vars

GamesOfMerged == {merged.rows[i]["GAME"] : i \in 1..Len(merged.rows)}

\* summed hours of game g over the merged rows
HoursOfGame(g) ==
    SumOver({i \in DefinedRows : merged.rows[i]["GAME"] = g}, DurationOfRow)

\* the row in which game g is first seen
FirstSeen(g) == CHOOSE i \in 1..Len(merged.rows) :
                    /\ merged.rows[i]["GAME"] = g
                    /\ \A k \in 1..(i - 1) : merged.rows[k]["GAME"] # g

\* what both the claim and its amendment say of the top-games rollup: at most
\* 15 entries, all games when there are fewer than 15, each entry a game with
\* its summed hours, no game twice, never more hours after fewer, and no game
\* left out that has more hours than a game let in
TopGamesTop15Descending ==
    /\ Len(top_games) = (IF Cardinality(GamesOfMerged) < 15
                         THEN Cardinality(GamesOfMerged) ELSE 15)
    /\ \A k \in 1..Len(top_games) :
          /\ top_games[k].GAME \in GamesOfMerged
          /\ top_games[k].duration_hours = HoursOfGame(top_games[k].GAME)
    /\ \A j, k \in 1..Len(top_games) :
          /\ j < k => top_games[j].duration_hours >= top_games[k].duration_hours
          /\ top_games[j].GAME = top_games[k].GAME => j = k
    /\ \A g \in GamesOfMerged \ {top_games[k].GAME : k \in 1..Len(top_games)} :
          \A k \in 1..Len(top_games) : HoursOfGame(g) <= top_games[k].duration_hours

\* C5 as claimed: the top-games rollup has at most 15 entries, holds the 15
\* games with the largest summed hours, is ordered descending by summed hours,
\* and places games with equal summed hours in the order in which they first
\* appear in the input rows.
ClaimC5_TiesInFirstSeenOrder ==
    pc = "charted" =>
        /\ TopGamesTop15Descending
        /\ \A j, k \in 1..Len(top_games) :
              (j < k /\ top_games[j].duration_hours = top_games[k].duration_hours) =>
                  FirstSeen(top_games[j].GAME) < FirstSeen(top_games[k].GAME)

\* C5 as amended: the top-games rollup has at most 15 entries, holds 15 games
\* with the largest summed hours (all games when fewer than 15 exist) and is
\* ordered descending by summed hours; the order of games with equal summed
\* hours is not the first-seen order and is not fixed by the code.
ThmC5_Top15Descending == pc = "charted" => TopGamesTop15Descending

\* C5 witness: 17 games, the rollup cut to 15, and two games with equal hours
\* placed against the order in which the rows first show them.
WitC5_CutTo15WithTieAgainstFirstSeen ==
    /\ pc = "charted"
    /\ Cardinality(GamesOfMerged) = 17
    /\ Len(top_games) = 15
    /\ \E j, k \in 1..Len(top_games) :
          /\ j < k
          /\ top_games[j].duration_hours = top_games[k].duration_hours
          /\ FirstSeen(top_games[j].GAME) > FirstSeen(top_games[k].GAME)

\* ---------------------------------------------------------------- SpecFilter

\* tags by their rank in string order: 1 Adventure, 2 Platformer, 3 RPG
TagValues == {1, 2, 3}

FilterColumns ==
    {{"Game"}, {"Game", "Genre"}, {"Game", "genretag1", "GenreTag2"},
     {"Game", "Genre", "genretag1"}}

FilterCells(c) == IF c = "Game" THEN KeyValues ELSE TagValues

FilterRows(cs) == {r \in [cs -> KeyValues \cup TagValues] : \A c \in cs : r[c] \in FilterCells(c)}

\* genre_filter is about to run on a normalized register
InitFilter ==
    /\ pc = "merged"
    /\ \E cs \in FilterColumns :
          reg_df \in {[cols |-> cs, rows |-> rs] : rs \in SeqsUpTo(FilterRows(cs), MaxFilterRows)}
    /\ sheet = <<>>
    /\ log_df = NoTable
    /\ merged = NoTable
    /\ ChartsIdle
    /\ FilterIdle
    /\ StoreIdle
    /\ FormIdle

NextFilter == GenreFilter

SpecFilter == InitFilter /\ [][NextFilter]_vars

\* the columns of the register whose name starts, case-insensitively, with "genretag"
TagColumns == reg_df.cols \cap {"genretag1", "GenreTag2"}

\* the rows the selection keeps
KeptRows == {i \in 1..Len(reg_df.rows) : \E c \in TagColumns : reg_df.rows[i][c] \in selected_tags}

\* C7: genre_filter returns the register unchanged when the selection is empty
\* or no column name starts case-insensitively with "genretag"; otherwise
\* exactly the rows, in their original order, for which at least one genretag
\* column holds a selected tag.
ThmC7_GenreFilter ==
    pc = "filtered" =>
        IF selected_tags = {} \/ TagColumns = {}
        THEN filtered_register = reg_df
        ELSE /\ filtered_register.cols = reg_df.cols
             /\ Len(filtered_register.rows) = Cardinality(KeptRows)
             /\ \A i \in KeptRows :
                   filtered_register.rows[Cardinality({k \in KeptRows : k <= i})] = reg_df.rows[i]

\* C7 witness: a game tagged RPG and Adventure is dropped and a game tagged
\* Platformer is kept when Platformer alone is selected.
WitC7_PlatformerSelected ==
    /\ pc = "filtered"
    /\ selected_tags = {2}
    /\ Len(reg_df.rows) = 2
    /\ reg_df.cols = {"Game", "genretag1", "GenreTag2"}
    /\ reg_df.rows[1]["genretag1"] = 3 /\ reg_df.rows[1]["GenreTag2"] = 1
    /\ reg_df.rows[2]["GenreTag2"] = 2
    /\ filtered_register.rows = <<reg_df.rows[2]>>

\* ---------------------------------------------------------------- SpecStore

\* the session begins with an empty page; the log worksheet has at most one row
InitStore ==
    /\ pc = "info"
    /\ sheet \in SeqsUpTo(FormRows, 1)
    /\ log_df = NoTable
    /\ reg_df = NoTable
    /\ merged = NoTable
    /\ ChartsIdle
    /\ FilterIdle
    /\ StoreIdle
    /\ FormIdle

\* loads and appends in any order, with time passing in between
NextStore == ClickLoad \/ AppendToGsheet \/ Tick

SpecStore == InitStore /\ [][NextStore]_vars

\* the log table a load builds from the worksheet rows recs
LogTableOf(recs) == normalize_log_df(DataFrame(recs))

AppendStep == pc' = "appended" /\ sheet' # sheet

LoadStep == pc' \in {"charted", "error"} /\ served' # "none" /\ clock' = clock

\* C9 as claimed: an append of one session row leaves the in-memory log and
\* merged tables unchanged, and a load issued after the append returns a log
\* table that contains the appended row.
ClaimC9_NextLoadSeesAppendedRow ==
    [][ /\ AppendStep => (log_df' = log_df /\ merged' = merged)
        /\ (LoadStep /\ pc' = "charted") => log_df' = LogTableOf(sheet') ]_vars

\* C9 as amended: an append leaves the in-memory log and merged tables
\* unchanged; a load reads the worksheet, and so returns the appended row, when
\* load_from_gsheet holds no cached result younger than 300 s for the tab;
\* otherwise it returns the snapshot cached by the read less than 300 s
\* before, which lacks every row appended since.
ThmC9_LoadSeesAppendUnlessCached ==
    [][ /\ AppendStep => (log_df' = log_df /\ merged' = merged /\ cache' = cache)
        /\ LoadStep =>
              /\ served' = "cache" <=> (cache["log"].valid /\ clock - cache["log"].at < 300)
              /\ served' = "cache" => cache'["log"] = cache["log"]
              /\ served' = "fetch" => cache'["log"] = [valid |-> TRUE, data |-> sheet, at |-> clock]
              /\ pc' = "charted" => log_df' = LogTableOf(cache'["log"].data)
              /\ (pc' = "charted" /\ served' = "fetch") => log_df' = LogTableOf(sheet') ]_vars

\* C9 witness: a row was appended after the cache was filled and, the cached
\* snapshot having expired, a later load read the worksheet and shows the row.
WitC9_ReloadAfterExpiryShowsRow ==
    /\ pc = "charted"
    /\ served = "fetch"
    /\ cache["log"].at >= 300
    /\ appended_rows # <<>>
    /\ Len(log_df.rows) = Len(sheet)
    /\ Len(sheet) = 2
    /\ log_df.rows[2]["GAME"] = appended_rows[Len(appended_rows)]["GAME"]

\* ---------------------------------------------------------------- SpecApp

InitApp == InitStore

\* the user's interactions with the page
SubmitFormBounded == Len(submitted_rows) < MaxSubmits /\ SubmitForm

NextApp == ClickLoad \/ SubmitFormBounded \/ EditSidebar \/ Tick

SpecApp == InitApp /\ [][NextApp]_vars

\* C10: when the user has loaded the data and then submits the session form,
\* append_to_gsheet is called exactly once for that submission with the row
\* built from the entered values; the rerun the submission triggers does not
\* keep the submission from the append.  Every action is a complete script
\* run, so once a run is over the rows appended are the rows submitted.
ClaimC10_SubmissionReachesAppend == appended_rows = submitted_rows

====
